---------------------------- MODULE Spec2Model ----------------------------
(***************************************************************************)
(* Verse reference keys of BibleOrgSys (VerseReferences.py):               *)
(* SimpleVerseKey, SimpleVersesKey, VerseRangeKey and FlexibleVersesKey.   *)
(*                                                                         *)
(* A Python str is a sequence of one-character strings.  A Python object   *)
(* is the record of its __dict__: an attribute that was never assigned is  *)
(* not in the record's DOMAIN.  debugFlag and debuggingThisModule are      *)
(* False (their defaults), so the debug prints and debug asserts are not   *)
(* part of the behaviour.                                                  *)
(***************************************************************************)
EXTENDS Integers, Sequences, FiniteSets, TLC

----------------------------------------------------------------------------
(* Characters and strings *)

Digits == <<"0","1","2","3","4","5","6","7","8","9">>
DigitSet == { Digits[i] : i \in 1..10 }
UpperSet == {"A","B","C","D","E","F","G","H","I","J","K","L","M",
             "N","O","P","Q","R","S","T","U","V","W","X","Y","Z"}
\* the en-dash U+2013 and the newline, as single characters
EnDash == "EN-DASH"
NL == "\n"

\* Python None, where a string is expected
None == <<"<None>">>

\* int( s ) for a string of decimal digits
RECURSIVE int(_)
int(s) ==
    IF s = <<>> THEN 0
    ELSE 10 * int(SubSeq(s, 1, Len(s) - 1))
         + (CHOOSE d \in 0..9 : Digits[d + 1] = s[Len(s)])

\* str( n ) for n >= 0
RECURSIVE str(_)
str(n) ==
    IF n < 10 THEN <<Digits[n + 1]>>
    ELSE str(n \div 10) \o <<Digits[(n % 10) + 1]>>

----------------------------------------------------------------------------
(* The regular expressions.  A pattern is a sequence of items: "BBB", "C",  *)
(* "V", "S" (the optional (?:!([a-f]?))? of VS_RE), "$" and literal        *)
(* characters; the leading ^ is the start position of Search.              *)

\* [A-PR-XZ][A-EG-VX-Z1][A-WYZ1-6]
BBB_RE(a, b, c) ==
    /\ a \in UpperSet \ {"Q", "Y"}
    /\ b \in (UpperSet \ {"F", "W"}) \cup {"1"}
    /\ c \in (UpperSet \ {"X"}) \cup {"1","2","3","4","5","6"}

\* ([1-9][0-9]?|[1][0-9][0-9]) at position p of s: the lengths the regex
\* engine tries, in its order (greedy first alternative, then the second)
C_RE(s, p) ==
    LET n == Len(s)
        nz(i) == i <= n /\ s[i] \in DigitSet \ {"0"}
        dg(i) == i <= n /\ s[i] \in DigitSet
    IN  (IF nz(p) /\ dg(p + 1) THEN <<2>> ELSE <<>>)
        \o (IF nz(p) THEN <<1>> ELSE <<>>)
        \o (IF p <= n /\ s[p] = "1" /\ dg(p + 1) /\ dg(p + 2) THEN <<3>> ELSE <<>>)

V_RE(s, p) == C_RE(s, p)

\* ([a-f]?) at position p: one letter first, then the empty string
S_RE(s, p) ==
    (IF p <= Len(s) /\ s[p] \in {"a","b","c","d","e","f"} THEN <<1>> ELSE <<>>)
    \o <<0>>

VS_RE == <<"V", "S">>
CVS_RE == <<"C", ":">> \o VS_RE
BCVS_RE == <<"BBB", "_">> \o CVS_RE
VERSE_RE == BCVS_RE \o <<"$">>
\* VERSES2_RE without its end marker
VERSES2_RE_noEnd == BCVS_RE \o <<",">> \o VS_RE

VERSES2_RE == BCVS_RE \o <<",">> \o VS_RE \o <<"$">>
VERSES2C_RE == BCVS_RE \o <<";">> \o CVS_RE \o <<"$">>
VERSES3_RE == BCVS_RE \o <<",">> \o VS_RE \o <<",">> \o VS_RE \o <<"$">>
VERSES3C_RE == BCVS_RE \o <<";">> \o CVS_RE \o <<";">> \o CVS_RE \o <<"$">>
CHAPTER_RE == <<"BBB", "_", "C", "$">>
VERSE_RANGE_RE == BCVS_RE \o <<"-">> \o VS_RE \o <<"$">>
CHAPTER_RANGE_RE == BCVS_RE \o <<EnDash>> \o CVS_RE \o <<"$">>
VERSE_RANGE_PLUS_RE == BCVS_RE \o <<"-">> \o VS_RE \o <<",">> \o VS_RE \o <<"$">>
VERSE_PLUS_RANGE_RE == BCVS_RE \o <<",">> \o VS_RE \o <<"-">> \o VS_RE \o <<"$">>
VERSE_PLUS_RANGE_PLUS_RE ==
    BCVS_RE \o <<",">> \o VS_RE \o <<"-">> \o VS_RE \o <<",">> \o VS_RE \o <<"$">>

\* x = value; then the rest, F(x), with x evaluated once
Bind(value, F(_)) == CHOOSE y \in { F(x) : x \in {value} } : TRUE

\* the candidates of a group that starts off characters after p, one for
\* each length: [adv: characters consumed, grp: the groups captured]
GroupCandidates(s, p, off, lens) ==
    [i \in 1..Len(lens) |->
        [adv |-> off + lens[i], grp |-> <<SubSeq(s, p + off, p + off + lens[i] - 1)>>]]

\* The ways one item can match at position p, in the engine's order
Candidates(item, s, p) ==
    CASE item = "BBB" ->
            IF p + 2 <= Len(s) /\ BBB_RE(s[p], s[p + 1], s[p + 2])
            THEN << [adv |-> 3, grp |-> <<SubSeq(s, p, p + 2)>>] >>
            ELSE <<>>
      [] item = "C" -> GroupCandidates(s, p, 0, C_RE(s, p))
      [] item = "V" -> GroupCandidates(s, p, 0, V_RE(s, p))
      [] item = "S" ->
            (IF p <= Len(s) /\ s[p] = "!"
             THEN GroupCandidates(s, p, 1, S_RE(s, p + 1))
             ELSE <<>>)
            \o << [adv |-> 0, grp |-> <<None>>] >>
      [] item = "$" ->
            IF p = Len(s) + 1 \/ (p = Len(s) /\ s[p] = NL)
            THEN << [adv |-> 0, grp |-> <<>>] >>
            ELSE <<>>
      [] OTHER ->
            IF p <= Len(s) /\ s[p] = item
            THEN << [adv |-> 1, grp |-> <<>>] >>
            ELSE <<>>

NoMatch == [matched |-> FALSE]

\* Backtracking match of the items from position p, groups gs captured so far
RECURSIVE MatchItems(_, _, _, _), TryCandidates(_, _, _, _, _)
MatchItems(items, s, p, gs) ==
    IF items = <<>> THEN [matched |-> TRUE, group |-> gs]
    ELSE Bind(Candidates(Head(items), s, p),
              LAMBDA cands : TryCandidates(cands, Tail(items), s, p, gs))
TryCandidates(cands, rest, s, p, gs) ==
    IF cands = <<>> THEN NoMatch
    ELSE Bind(MatchItems(rest, s, p + Head(cands).adv, gs \o Head(cands).grp),
              LAMBDA r : IF r.matched THEN r
                         ELSE TryCandidates(Tail(cands), rest, s, p, gs))

\* re.search( pattern, referenceString ) for a pattern that starts with ^
Search(pattern, referenceString) == MatchItems(pattern, referenceString, 1, <<>>)

\* match.group(i) if match.group(i) else ''
GroupOrEmpty(match, i) == IF match.group[i] = None THEN <<>> ELSE match.group[i]


----------------------------------------------------------------------------
(* The globals of BibleOrgSysGlobals the module reads *)

GEN == <<"G","E","N">>
SA2 == <<"S","A","2">>
REV == <<"R","E","V">>
\* the registry of book codes (BibleOrgSysGlobals.BibleBooksCodes)
BibleBooksCodes == {GEN, SA2, REV}

VARIABLES
    strictCheckingFlag,  \* BibleOrgSysGlobals.strictCheckingFlag
    call,                \* the constructor call being run: class and arguments
    pc,                  \* "call", "while_VV", "while_CVCV", "returned", "raised"
    raised,              \* the exception that escaped the constructor, or ""
    self,                \* the object the call constructs
    rangeKey,            \* the VerseRangeKey whose expansion loop is running
    locals,              \* the local variables of that loop
    pending,             \* what the caller does once the loop's constructor returns
    log,                 \* the records passed to logging.error
    included,            \* the outcomes of the getIncludedVerses() calls made so far
    previous             \* the object whose getVerseKeyText() is being re-parsed

vars == <<strictCheckingFlag, call, pc, raised, self, rangeKey, locals, pending,
          log, included, previous>>

----------------------------------------------------------------------------
(* Python values and objects *)

\* arguments of a call are tagged: a str, an int or None
PyStr(s) == [str |-> s]
PyInt(n) == [int |-> n]
PyNone == [none |-> TRUE]
IsNone(x) == DOMAIN x = {"none"}
IsInt(x) == DOMAIN x = {"int"}
\* if isinstance( x, int ): x = str( x )
StrArg(x) == IF IsNone(x) THEN None ELSE IF IsInt(x) THEN str(x.int) ELSE x.str

NoObject == [class |-> "NoneType"]
NoLocals == [loop |-> ""]

\* self.name = value
SetAttr(obj, name, value) ==
    [n \in DOMAIN obj \cup {name} |-> IF n = name THEN value ELSE obj[n]]
HasAttr(obj, name) == name \in DOMAIN obj

\* logging.error( fmt.format( arg ) )
LogError(fmt, arg) == [level |-> "error", fmt |-> fmt, arg |-> arg]

----------------------------------------------------------------------------
(* class SimpleVerseKey *)

\* the else branch of __init__: SimpleVerseKey( BBB, C, V, S ) with strings
\* (S already '' when it was None)
SimpleVerseKey(BBB, C, V, S) ==
    [class |-> "SimpleVerseKey", ignoreParseErrors |-> FALSE,
     BBB |-> BBB, C |-> C, V |-> V, S |-> S, keyType |-> "AssignedBVCS"]

\* __eq__ as its commented-out first line has it: the __dict__s compared
SimpleVerseKey_eq_dict(a, b) ==
    IF a.class = "SimpleVerseKey" /\ b.class = "SimpleVerseKey" THEN a = b ELSE FALSE

SimpleVerseKey_eq(a, b) ==
    IF a.class = "SimpleVerseKey" /\ b.class = "SimpleVerseKey"
    THEN a.BBB = b.BBB /\ a.C = b.C /\ a.V = b.V /\ a.S = b.S
    ELSE FALSE

\* def __ne__(self, other): return not self.__eq__(other)
SimpleVerseKey_ne(a, b) == ~SimpleVerseKey_eq(a, b)

SimpleVerseKey_getShortText(k) == k.BBB \o <<" ">> \o k.C \o <<":">> \o k.V \o k.S

\* getVerseKeyText formatting the suffix as getShortText does, with no '!'
SimpleVerseKey_getVerseKeyText_noBang(k) ==
    k.BBB \o <<"_">> \o k.C \o <<":">> \o k.V \o k.S

SimpleVerseKey_getVerseKeyText(k) ==
    k.BBB \o <<"_">> \o k.C \o <<":">> \o k.V
          \o (IF k.S # <<>> THEN <<"!">> ELSE <<>>) \o k.S

\* "{}:{}".format( self.BBB, self.C, self.V, self.S ): two fields for four arguments
SimpleVerseKey_makeHash(k) == k.BBB \o <<":">> \o k.C

\* the characters int() strips from both ends of its argument
Whitespace == {" ", NL}
RECURSIVE strip(_)
strip(s) ==
    IF s # <<>> /\ Head(s) \in Whitespace THEN strip(Tail(s))
    ELSE IF s # <<>> /\ s[Len(s)] \in Whitespace THEN strip(SubSeq(s, 1, Len(s) - 1))
    ELSE s

\* the literals int() accepts once stripped: an optional sign, then digits
\* with single underscores allowed between them
IsIntLiteral(t) ==
    LET u == IF t # <<>> /\ Head(t) \in {"+", "-"} THEN Tail(t) ELSE t
    IN  /\ u # <<>>
        /\ \A i \in 1..Len(u) : u[i] \in DigitSet \cup {"_"}
        /\ u[1] # "_" /\ u[Len(u)] # "_"
        /\ \A i \in 1..(Len(u) - 1) : ~(u[i] = "_" /\ u[i + 1] = "_")

IsDigit(c) == c \in DigitSet

\* int( x ) for any attribute value: [raised, value]
IntOf(x) ==
    IF x = None THEN [raised |-> "TypeError", value |-> 0]
    ELSE IF ~IsIntLiteral(strip(x)) THEN [raised |-> "ValueError", value |-> 0]
    ELSE [raised |-> "",
          value |-> IF Head(strip(x)) = "-" THEN 0 - int(SelectSeq(strip(x), IsDigit))
                    ELSE int(SelectSeq(strip(x), IsDigit))]

\* logging.warning( fmt.format( repr( arg ) ) )
LogWarning(fmt, arg) == [level |-> "warning", fmt |-> fmt, arg |-> arg]

\* the except ValueError clause of getChapterNumberInt and getVerseNumberInt:
\* digitCount counts every digit of the string, and the int() of the slice
\* is not guarded
NumberIntOfPrefix(x, lg) ==
    IF x # <<>> /\ IsDigit(x[1])
    THEN Bind(IntOf(SubSeq(x, 1, Cardinality({ i \in 1..Len(x) : IsDigit(x[i]) }))),
              LAMBDA r : [raised |-> r.raised, log |-> lg,
                          value |-> IF r.raised = "" THEN PyInt(r.value) ELSE PyNone])
    ELSE [raised |-> "", value |-> PyNone, log |-> lg]

\* the body the two accessors share: [raised, value, log]
NumberInt(x, fmt) ==
    Bind(IntOf(x), LAMBDA r :
        IF r.raised = "" THEN [raised |-> "", value |-> PyInt(r.value), log |-> <<>>]
        ELSE IF r.raised # "ValueError"
        THEN [raised |-> r.raised, value |-> PyNone, log |-> <<>>]
        ELSE NumberIntOfPrefix(x, <<LogWarning(fmt, x)>>))

SimpleVerseKey_getChapterNumberInt(k) ==
    NumberInt(k.C, "getChapterNumberInt: Unusual C value: {}")
SimpleVerseKey_getVerseNumberInt(k) ==
    NumberInt(k.V, "getVerseNumberInt: Unusual V value: {}")

\* the log call made when BBB is not a registered code
InvalidBookCode(logger, BBB) ==
    IF BBB \notin BibleBooksCodes THEN <<LogError(logger, BBB)>> ELSE <<>>

\* parseReferenceString: [self, result, raised, log]
SimpleVerseKey_parseReferenceString(obj, referenceString, strict) ==
    Bind(Search(VERSE_RE, referenceString), LAMBDA match :
    IF match.matched
    THEN Bind([class |-> "SimpleVerseKey", ignoreParseErrors |-> obj.ignoreParseErrors,
               BBB |-> match.group[1], C |-> match.group[2], V |-> match.group[3],
               S |-> GroupOrEmpty(match, 4)],
         LAMBDA parsed :
         IF strict /\ parsed.BBB \notin BibleBooksCodes
         THEN [self |-> parsed, result |-> FALSE, raised |-> "AssertionError",
               log |-> InvalidBookCode("SimpleVerseKey: Invalid {!r} book code", parsed.BBB)]
         ELSE [self |-> SetAttr(parsed, "keyType", "ParsedBVCS"),
               result |-> TRUE, raised |-> "",
               log |-> InvalidBookCode("SimpleVerseKey: Invalid {!r} book code", parsed.BBB)])
    ELSE [self |-> obj, result |-> FALSE, raised |-> "",
          log |-> IF ~obj.ignoreParseErrors
                  THEN <<LogError("SimpleVerseKey was unable to parse {!r}", referenceString)>>
                  ELSE <<>>])

\* a constructor in which ignoreParseErrors also keeps the False returned by
\* parseReferenceString from becoming a TypeError
InitOutcome_swallow(p) ==
    [self |-> p.self, log |-> p.log,
     raised |-> IF p.raised # "" THEN p.raised
                ELSE IF ~p.result /\ ~p.self.ignoreParseErrors THEN "TypeError" ELSE ""]

\* raise TypeError when parseReferenceString returned False: [self, raised, log]
InitOutcome(p) ==
    [self |-> p.self, log |-> p.log,
     raised |-> IF p.raised # "" THEN p.raised
                ELSE IF ~p.result THEN "TypeError" ELSE ""]

\* an __init__ that raises for an unparsable string under the strict policy
\* only, and otherwise leaves the caller an object to test
SimpleVerseKey_init_lenient(BBB, C, V, S, ignoreParseErrors, strict) ==
    IF IsNone(C) /\ IsNone(V) /\ IsNone(S)
    THEN Bind(SimpleVerseKey_parseReferenceString(
                  [class |-> "SimpleVerseKey", ignoreParseErrors |-> ignoreParseErrors],
                  BBB.str, strict),
              LAMBDA p : [self |-> p.self, log |-> p.log,
                          raised |-> IF p.raised # "" THEN p.raised
                                     ELSE IF ~p.result /\ strict THEN "TypeError" ELSE ""])
    ELSE [self |-> [class |-> "SimpleVerseKey",
                    ignoreParseErrors |-> ignoreParseErrors,
                    BBB |-> BBB.str, C |-> StrArg(C), V |-> StrArg(V),
                    S |-> IF IsNone(S) THEN <<>> ELSE S.str,
                    keyType |-> "AssignedBVCS"],
          raised |-> "", log |-> <<>>]

\* __init__( BBB, C, V, S, ignoreParseErrors ) on tagged arguments:
\* [self, raised, log]
SimpleVerseKey_init(BBB, C, V, S, ignoreParseErrors, strict) ==
    IF IsNone(C) /\ IsNone(V) /\ IsNone(S)
    THEN Bind(SimpleVerseKey_parseReferenceString(
                  [class |-> "SimpleVerseKey", ignoreParseErrors |-> ignoreParseErrors],
                  BBB.str, strict),
              InitOutcome)
    ELSE [self |-> [class |-> "SimpleVerseKey",
                    ignoreParseErrors |-> ignoreParseErrors,
                    BBB |-> BBB.str, C |-> StrArg(C), V |-> StrArg(V),
                    S |-> IF IsNone(S) THEN <<>> ELSE S.str,
                    keyType |-> "AssignedBVCS"],
          raised |-> "", log |-> <<>>]

\* SimpleVerseKey( referenceString ) with the default ignoreParseErrors=False
\* whatever the caller asked for
SimpleVerseKey_fromString_logging(referenceString, ignoreParseErrors, strict) ==
    SimpleVerseKey_init(PyStr(referenceString), PyNone, PyNone, PyNone, FALSE, strict)

\* SimpleVerseKey( referenceString, ignoreParseErrors=... )
SimpleVerseKey_fromString(referenceString, ignoreParseErrors, strict) ==
    SimpleVerseKey_init(PyStr(referenceString), PyNone, PyNone, PyNone,
                        ignoreParseErrors, strict)

----------------------------------------------------------------------------
(* class SimpleVersesKey *)

\* the log call of the branches that format self.BBB, an attribute the
\* list and range classes never assign: evaluating the argument raises
\* AttributeError.  [raised, log]
InvalidBookCodeOfSelf(obj, logger, BBB) ==
    IF BBB \in BibleBooksCodes THEN [raised |-> "", log |-> <<>>]
    ELSE IF HasAttr(obj, "BBB")
         THEN [raised |-> "", log |-> <<LogError(logger, obj.BBB)>>]
         ELSE [raised |-> "AttributeError", log |-> <<>>]

\* assert( int(V2)>int(V1)+1 or S2!=S1 )
ListOrderOK(V1, S1, V2, S2) == int(V2) > int(V1) + 1 \/ S2 # S1

ParseFailed(obj, e, lg) == [self |-> obj, result |-> FALSE, raised |-> e, log |-> lg]
ParseDone(obj, lg) == [self |-> obj, result |-> TRUE, raised |-> "", log |-> lg]

\* the VERSES2_RE branch of parseReferenceString
SimpleVersesKey_2V(obj, match, strict) ==
    LET BBB == match.group[1]  C == match.group[2]
        V1 == match.group[3]  S1 == GroupOrEmpty(match, 4)
        V2 == match.group[5]  S2 == GroupOrEmpty(match, 6)
        lg == InvalidBookCode("SimpleVerseKey: Invalid {!r} book code", BBB)
    IN  IF strict /\ (BBB \notin BibleBooksCodes \/ ~ListOrderOK(V1, S1, V2, S2))
        THEN ParseFailed(obj, "AssertionError", lg)
        ELSE ParseDone(SetAttr(SetAttr(obj, "verseKeysList",
                        <<SimpleVerseKey(BBB, C, V1, S1), SimpleVerseKey(BBB, C, V2, S2)>>),
                        "keyType", "2V"), lg)

\* the VERSES2C_RE branch
SimpleVersesKey_2CV(obj, match, strict) ==
    LET BBB == match.group[1]
        C1 == match.group[2]  V1 == match.group[3]  S1 == GroupOrEmpty(match, 4)
        C2 == match.group[5]  V2 == match.group[6]  S2 == GroupOrEmpty(match, 7)
        lg == InvalidBookCodeOfSelf(obj, "SimpleVerseKey: Invalid {!r} book code", BBB)
    IN  IF lg.raised # "" THEN ParseFailed(obj, lg.raised, lg.log)
        ELSE IF strict /\ BBB \notin BibleBooksCodes
        THEN ParseFailed(obj, "AssertionError", lg.log)
        ELSE ParseDone(SetAttr(SetAttr(obj, "verseKeysList",
                        <<SimpleVerseKey(BBB, C1, V1, S1), SimpleVerseKey(BBB, C2, V2, S2)>>),
                        "keyType", "2CV"), lg.log)

\* the VERSES3_RE branch: it does not assign self.verseKeysList
SimpleVersesKey_3V(obj, match, strict) ==
    LET BBB == match.group[1]
        V1 == match.group[3]  S1 == GroupOrEmpty(match, 4)
        V2 == match.group[5]  S2 == GroupOrEmpty(match, 6)
        V3 == match.group[7]  S3 == GroupOrEmpty(match, 8)
        lg == InvalidBookCodeOfSelf(obj, "SimpleVerseKey: Invalid {!r} book code", BBB)
    IN  IF lg.raised # "" THEN ParseFailed(obj, lg.raised, lg.log)
        ELSE IF strict /\ (BBB \notin BibleBooksCodes \/ ~ListOrderOK(V1, S1, V2, S2)
                                                     \/ ~ListOrderOK(V2, S2, V3, S3))
        THEN ParseFailed(obj, "AssertionError", lg.log)
        ELSE ParseDone(SetAttr(obj, "keyType", "3V"), lg.log)

\* the VERSES3C_RE branch: it does not assign self.verseKeysList
SimpleVersesKey_3CV(obj, match, strict) ==
    LET BBB == match.group[1]
        lg == InvalidBookCodeOfSelf(obj, "SimpleVerseKey: Invalid {!r} book code", BBB)
    IN  IF lg.raised # "" THEN ParseFailed(obj, lg.raised, lg.log)
        ELSE IF strict /\ BBB \notin BibleBooksCodes
        THEN ParseFailed(obj, "AssertionError", lg.log)
        ELSE ParseDone(SetAttr(obj, "keyType", "3CV"), lg.log)

\* parseReferenceString: [self, result, raised, log]
SimpleVersesKey_parseReferenceString(obj, referenceString, strict) ==
    Bind(Search(VERSES2_RE, referenceString), LAMBDA m2 :
    IF m2.matched THEN SimpleVersesKey_2V(obj, m2, strict) ELSE
    Bind(Search(VERSES2C_RE, referenceString), LAMBDA m2c :
    IF m2c.matched THEN SimpleVersesKey_2CV(obj, m2c, strict) ELSE
    Bind(Search(VERSES3_RE, referenceString), LAMBDA m3 :
    IF m3.matched THEN SimpleVersesKey_3V(obj, m3, strict) ELSE
    Bind(Search(VERSES3C_RE, referenceString), LAMBDA m3c :
    IF m3c.matched THEN SimpleVersesKey_3CV(obj, m3c, strict) ELSE
    ParseFailed(obj, "",
        IF ~obj.ignoreParseErrors
        THEN <<LogError("SimpleVerseKey was unable to parse {!r}", referenceString)>>
        ELSE <<>>)))))

\* __init__( referenceString, ignoreParseErrors ): [self, raised, log]
SimpleVersesKey_init(referenceString, ignoreParseErrors, strict) ==
    Bind(SimpleVersesKey_parseReferenceString(
             [class |-> "SimpleVersesKey", ignoreParseErrors |-> ignoreParseErrors,
              verseKeysList |-> <<>>],
             referenceString, strict),
         InitOutcome)

----------------------------------------------------------------------------
(* class VerseRangeKey *)

\* if int(V)>222: the verse count after which the chapter loop rolls over
RolloverVerse == 222

\* '{}_{}:{}{}{}-{}{}{}'.format( BBB, C, V1, '!' if S1 else '', S1, V2, '!' if S2 else '', S2 )
FormatRange(BBB, C, V1, S1, V2, S2) ==
    BBB \o <<"_">> \o C \o <<":">> \o V1 \o (IF S1 # <<>> THEN <<"!">> ELSE <<>>) \o S1
        \o <<"-">> \o V2 \o (IF S2 # <<>> THEN <<"!">> ELSE <<>>) \o S2

\* The outcomes of parseReferenceString up to the entry of its while loop,
\* or to its return when the branch has no loop:
\* [state, self, raised, log, locals] where state is "while_VV",
\* "while_CVCV", "returned" or "raised"
RangeRaised(obj, e, lg) ==
    [state |-> "raised", self |-> obj, raised |-> e, log |-> lg, locals |-> NoLocals]

\* the VERSE_RANGE_RE branch, up to while True
VerseRangeKey_VV(obj, match, strict) ==
    LET BBB == match.group[1]  C == match.group[2]
        V1 == match.group[3]  S1 == GroupOrEmpty(match, 4)
        V2 == match.group[5]  S2 == GroupOrEmpty(match, 6)
        lg == InvalidBookCode("VerseRangeKey: Invalid {!r} book code", BBB)
    IN  IF strict /\ BBB \notin BibleBooksCodes THEN RangeRaised(obj, "AssertionError", lg)
        ELSE [state |-> "while_VV",
              self |-> SetAttr(SetAttr(SetAttr(obj,
                          "rangeStart", SimpleVerseKey(BBB, C, V1, S1)),
                          "rangeEnd", SimpleVerseKey(BBB, C, V2, S2)),
                          "verseKeysList", <<>>),
              raised |-> "", log |-> lg,
              locals |-> [loop |-> "V-V", BBB |-> BBB, C |-> C, V |-> V1, S |-> S1,
                          V2 |-> V2, S2 |-> S2]]

\* the CHAPTER_RANGE_RE branch, up to while True
VerseRangeKey_CVCV(obj, match, strict) ==
    LET BBB == match.group[1]
        C1 == match.group[2]  V1 == match.group[3]  S1 == GroupOrEmpty(match, 4)
        C2 == match.group[5]  V2 == match.group[6]  S2 == GroupOrEmpty(match, 7)
        lg == InvalidBookCode("VerseRangeKey: Invalid {!r} book code", BBB)
    IN  IF strict /\ BBB \notin BibleBooksCodes THEN RangeRaised(obj, "AssertionError", lg)
        ELSE [state |-> "while_CVCV",
              self |-> SetAttr(SetAttr(SetAttr(obj,
                          "rangeStart", SimpleVerseKey(BBB, C1, V1, S1)),
                          "rangeEnd", SimpleVerseKey(BBB, C2, V2, S2)),
                          "verseKeysList", <<>>),
              raised |-> "", log |-> lg,
              locals |-> [loop |-> "CV-CV", BBB |-> BBB, C |-> C1, V |-> V1, S |-> S1,
                          C2 |-> C2, V2 |-> V2, S2 |-> S2]]

\* the CHAPTER_RE branch: it does not assign self.verseKeysList
VerseRangeKey_C(obj, match, strict) ==
    LET BBB == match.group[1]  C == match.group[2]
        lg == InvalidBookCodeOfSelf(obj, "VerseRangeKey: Invalid {!r} book code", BBB)
    IN  IF lg.raised # "" THEN RangeRaised(obj, lg.raised, lg.log)
        ELSE IF strict /\ BBB \notin BibleBooksCodes
        THEN RangeRaised(obj, "AssertionError", lg.log)
        ELSE [state |-> "returned",
              self |-> SetAttr(SetAttr(SetAttr(obj,
                          "rangeStart", SimpleVerseKey(BBB, C, <<"1">>, <<>>)),
                          "rangeEnd", SimpleVerseKey(BBB, C, <<"9","9","9">>, <<>>)),
                          "keyType", "C"),
              raised |-> "", log |-> lg.log, locals |-> NoLocals]

\* parseReferenceString up to the loop; no match is return False, on which
\* __init__ raises TypeError
VerseRangeKey_parseReferenceString(obj, referenceString, strict) ==
    Bind(Search(VERSE_RANGE_RE, referenceString), LAMBDA mv :
    IF mv.matched THEN VerseRangeKey_VV(obj, mv, strict) ELSE
    Bind(Search(CHAPTER_RANGE_RE, referenceString), LAMBDA mc :
    IF mc.matched THEN VerseRangeKey_CVCV(obj, mc, strict) ELSE
    Bind(Search(CHAPTER_RE, referenceString), LAMBDA mch :
    IF mch.matched THEN VerseRangeKey_C(obj, mch, strict) ELSE
    RangeRaised(obj, "TypeError",
        IF ~obj.ignoreParseErrors
        THEN <<LogError("VerseRangeKey was unable to parse {!r}", referenceString)>>
        ELSE <<>>))))

\* __init__( referenceString, ignoreParseErrors ) up to the loop
VerseRangeKey_init(referenceString, ignoreParseErrors, strict) ==
    VerseRangeKey_parseReferenceString(
        [class |-> "VerseRangeKey", ignoreParseErrors |-> ignoreParseErrors],
        referenceString, strict)

\* the test that ends the while loop
AtRangeEnd(loc) ==
    IF loc.loop = "V-V" THEN loc.V = loc.V2
    ELSE loc.C = loc.C2 /\ loc.V = loc.V2

\* a chapter loop that rolls over one verse early
NextVerse_rollEarly(loc) ==
    IF loc.loop = "V-V" THEN [loc EXCEPT !.V = str(int(loc.V) + 1)]
    ELSE IF int(loc.V) + 1 >= RolloverVerse
         THEN [loc EXCEPT !.C = str(int(loc.C) + 1), !.V = <<"1">>]
         ELSE [loc EXCEPT !.V = str(int(loc.V) + 1)]

\* V = str( int(V) + 1 ), and in the chapter loop the roll-over
NextVerse(loc) ==
    IF loc.loop = "V-V" THEN [loc EXCEPT !.V = str(int(loc.V) + 1)]
    ELSE IF int(loc.V) + 1 > RolloverVerse
         THEN [loc EXCEPT !.C = str(int(loc.C) + 1), !.V = <<"1">>]
         ELSE [loc EXCEPT !.V = str(int(loc.V) + 1)]

\* an insert at the front of the list in place of the append
AppendVerse_prepend(rk, key) ==
    [rk EXCEPT !.verseKeysList = <<key>> \o rk.verseKeysList]

\* self.verseKeysList.append( key )
AppendVerse(rk, key) ==
    [rk EXCEPT !.verseKeysList = Append(rk.verseKeysList, key)]

\* FinishRange leaving out the append of the end verse: an off-by-one expansion
FinishRange_noAppend(rk, loc) == SetAttr(rk, "keyType", loc.loop)

\* a loop exit that appends the end verse with the suffix of the start
FinishRange_startSuffix(rk, loc) ==
    SetAttr(AppendVerse(rk, SimpleVerseKey(loc.BBB, loc.C, loc.V2, loc.S)),
            "keyType", loc.loop)

\* the loop's exit: append SimpleVerseKey( BBB, C, V2, S2 ), break, set
\* keyType, return True
FinishRange(rk, loc) ==
    SetAttr(AppendVerse(rk, SimpleVerseKey(loc.BBB, loc.C, loc.V2, loc.S2)),
            "keyType", loc.loop)

VerseRangeKey_getVerseKeyText(rk) ==
    SimpleVerseKey_getVerseKeyText(rk.rangeStart) \o <<"-">>
        \o SimpleVerseKey_getVerseKeyText(rk.rangeEnd)

----------------------------------------------------------------------------
(* class FlexibleVersesKey *)

NoPending == [after |-> <<>>, keyType |-> ""]

\* what parseReferenceString does once the VerseRangeKey constructor has
\* returned: append the range, then the trailing verse and the keyType of
\* the compound branches
FlexibleVersesKey_resume(obj, finishedRange, pend) ==
    IF pend.keyType = ""
    THEN [obj EXCEPT !.verseKeyObjectList = Append(@, finishedRange) \o pend.after]
    ELSE SetAttr([obj EXCEPT !.verseKeyObjectList = Append(@, finishedRange) \o pend.after],
                 "keyType", pend.keyType)

\* The outcomes of parseReferenceString up to the entry of the while loop
\* of the VerseRangeKey it constructs, or to its return when there is none:
\* [state, self, raised, log, rangeKey, locals, pending]
FlexReturned(obj, lg) ==
    [state |-> "returned", self |-> obj, raised |-> "", log |-> lg,
     rangeKey |-> NoObject, locals |-> NoLocals, pending |-> NoPending]
FlexRaised(obj, e, lg) ==
    [state |-> "raised", self |-> obj, raised |-> e, log |-> lg,
     rangeKey |-> NoObject, locals |-> NoLocals, pending |-> NoPending]

\* self.verseKeyObjectList.append( key )
AddKey(obj, key) == [obj EXCEPT !.verseKeyObjectList = Append(@, key)]

\* resultKey = VerseRangeKey( ... ) with outcome r, then the appends
FlexRange(obj, r, lg, pend) ==
    IF r.state = "raised" THEN FlexRaised(obj, r.raised, lg \o r.log)
    ELSE IF r.state = "returned"
    THEN FlexReturned(FlexibleVersesKey_resume(obj, r.self, pend), lg \o r.log)
    ELSE [state |-> r.state, self |-> obj, raised |-> "", log |-> lg \o r.log,
          rangeKey |-> r.self, locals |-> r.locals, pending |-> pend]

\* the VERSE_RANGE_PLUS_RE branch
FlexibleVersesKey_RangePlus(obj, match, strict) ==
    LET BBB == match.group[1]  C == match.group[2]
        V1 == match.group[3]  S1 == GroupOrEmpty(match, 4)
        V2 == match.group[5]  S2 == GroupOrEmpty(match, 6)
        V3 == match.group[7]  S3 == GroupOrEmpty(match, 8)
        lg == InvalidBookCode("VerseRangeKey: Invalid {!r} book code", BBB)
    IN  IF strict /\ (BBB \notin BibleBooksCodes \/ ~(int(V2) > int(V1) \/ S2 # S1)
                                                \/ ~ListOrderOK(V2, S2, V3, S3))
        THEN FlexRaised(obj, "AssertionError", lg)
        ELSE Bind(VerseRangeKey_init(FormatRange(BBB, C, V1, S1, V2, S2), TRUE, strict),
                  LAMBDA r : FlexRange(obj, r, lg,
                      [after |-> <<SimpleVerseKey(BBB, C, V3, S3)>>, keyType |-> "V-V,V"]))

\* the VERSE_PLUS_RANGE_RE branch
FlexibleVersesKey_PlusRange(obj, match, strict) ==
    LET BBB == match.group[1]  C == match.group[2]
        V1 == match.group[3]  S1 == GroupOrEmpty(match, 4)
        V2 == match.group[5]  S2 == GroupOrEmpty(match, 6)
        V3 == match.group[7]  S3 == GroupOrEmpty(match, 8)
        lg == InvalidBookCode("VerseRangeKey: Invalid {!r} book code", BBB)
    IN  IF strict /\ (BBB \notin BibleBooksCodes \/ ~ListOrderOK(V1, S1, V2, S2)
                                                \/ ~(int(V3) > int(V2) \/ S3 # S2))
        THEN FlexRaised(obj, "AssertionError", lg)
        ELSE Bind(VerseRangeKey_init(FormatRange(BBB, C, V2, S2, V3, S3), TRUE, strict),
                  LAMBDA r : FlexRange(AddKey(obj, SimpleVerseKey(BBB, C, V1, S1)), r, lg,
                      [after |-> <<>>, keyType |-> "V,V-V"]))

\* the VERSE_PLUS_RANGE_PLUS_RE branch
FlexibleVersesKey_PlusRangePlus(obj, match, strict) ==
    LET BBB == match.group[1]  C == match.group[2]
        V1 == match.group[3]  S1 == GroupOrEmpty(match, 4)
        V2 == match.group[5]  S2 == GroupOrEmpty(match, 6)
        V3 == match.group[7]  S3 == GroupOrEmpty(match, 8)
        V4 == match.group[9]  S4 == GroupOrEmpty(match, 10)
        lg == InvalidBookCode("VerseRangeKey: Invalid {!r} book code", BBB)
    IN  IF strict /\ (BBB \notin BibleBooksCodes \/ ~ListOrderOK(V1, S1, V2, S2)
                                                \/ ~(int(V3) > int(V2) \/ S3 # S2)
                                                \/ ~ListOrderOK(V3, S3, V4, S4))
        THEN FlexRaised(obj, "AssertionError", lg)
        ELSE Bind(VerseRangeKey_init(FormatRange(BBB, C, V2, S2, V3, S3), TRUE, strict),
                  LAMBDA r : FlexRange(AddKey(obj, SimpleVerseKey(BBB, C, V1, S1)), r, lg,
                      [after |-> <<SimpleVerseKey(BBB, C, V4, S4)>>, keyType |-> "V,V-V,V"]))

\* the three special cases, tried after the three constructors raised TypeError
FlexibleVersesKey_special(obj, referenceString, strict) ==
    Bind(Search(VERSE_RANGE_PLUS_RE, referenceString), LAMBDA mrp :
    IF mrp.matched THEN FlexibleVersesKey_RangePlus(obj, mrp, strict) ELSE
    Bind(Search(VERSE_PLUS_RANGE_RE, referenceString), LAMBDA mpr :
    IF mpr.matched THEN FlexibleVersesKey_PlusRange(obj, mpr, strict) ELSE
    Bind(Search(VERSE_PLUS_RANGE_PLUS_RE, referenceString), LAMBDA mprp :
    IF mprp.matched THEN FlexibleVersesKey_PlusRangePlus(obj, mprp, strict) ELSE
    FlexRaised(obj, "TypeError",
        <<LogError("FlexibleVersesKey was unable to parse {!r}", referenceString)>>))))

\* the log calls made before an outcome come before its own
LoggedBefore(lg, outcome) == [outcome EXCEPT !.log = lg \o @]

\* parseReferenceString without its first try: the dispatch starts at the lists
FlexibleVersesKey_parseReferenceString_noSingle(obj, referenceString, strict) ==
    Bind(SimpleVersesKey_init(referenceString, TRUE, strict), LAMBDA k2 :
    IF k2.raised = "" THEN FlexReturned(AddKey(obj, k2.self), k2.log)
    ELSE IF k2.raised # "TypeError" THEN FlexRaised(obj, k2.raised, k2.log) ELSE
    Bind(VerseRangeKey_init(referenceString, TRUE, strict), LAMBDA k3 :
    IF k3.raised # "TypeError" THEN FlexRange(obj, k3, k2.log, NoPending)
    ELSE LoggedBefore(k2.log \o k3.log,
                      FlexibleVersesKey_special(obj, referenceString, strict))))

\* parseReferenceString up to the loop: each try catches TypeError only, and
\* what a failed try logged stays logged
FlexibleVersesKey_parseReferenceString(obj, referenceString, strict) ==
    Bind(SimpleVerseKey_fromString(referenceString, TRUE, strict), LAMBDA k1 :
    IF k1.raised = "" THEN FlexReturned(AddKey(obj, k1.self), k1.log)
    ELSE IF k1.raised # "TypeError" THEN FlexRaised(obj, k1.raised, k1.log) ELSE
    Bind(SimpleVersesKey_init(referenceString, TRUE, strict), LAMBDA k2 :
    IF k2.raised = "" THEN FlexReturned(AddKey(obj, k2.self), k1.log \o k2.log)
    ELSE IF k2.raised # "TypeError" THEN FlexRaised(obj, k2.raised, k1.log \o k2.log) ELSE
    Bind(VerseRangeKey_init(referenceString, TRUE, strict), LAMBDA k3 :
    IF k3.raised # "TypeError" THEN FlexRange(obj, k3, k1.log \o k2.log, NoPending)
    ELSE LoggedBefore(k1.log \o k2.log \o k3.log,
                      FlexibleVersesKey_special(obj, referenceString, strict)))))

\* __init__( referenceString ) up to the loop
FlexibleVersesKey_init(referenceString, strict) ==
    FlexibleVersesKey_parseReferenceString(
        [class |-> "FlexibleVersesKey", verseKeyObjectList |-> <<>>],
        referenceString, strict)

----------------------------------------------------------------------------
(* getIncludedVerses and getVerseKeyText of the four classes *)

\* list( obj.getIncludedVerses() ): [raised, value]
IncludedOf(obj) ==
    IF obj.class = "SimpleVerseKey" THEN [raised |-> "", value |-> <<obj>>]
    ELSE IF HasAttr(obj, "verseKeysList")
         THEN [raised |-> "", value |-> obj.verseKeysList]
         ELSE [raised |-> "AttributeError", value |-> <<>>]

RECURSIVE ExtendAll(_, _)
ExtendAll(resultList, objects) ==
    IF objects = <<>> THEN [raised |-> "", value |-> resultList]
    ELSE LET iv == IncludedOf(Head(objects)) IN
         IF iv.raised # "" THEN [raised |-> iv.raised, value |-> <<>>]
         ELSE ExtendAll(resultList \o iv.value, Tail(objects))

getIncludedVerses(obj) ==
    IF obj.class = "FlexibleVersesKey" THEN ExtendAll(<<>>, obj.verseKeyObjectList)
    ELSE IncludedOf(obj)

\* resultStr = ''; for each text: if resultStr: resultStr += ', '; resultStr += text
RECURSIVE JoinTexts(_, _)
JoinTexts(resultStr, texts) ==
    IF texts = <<>> THEN resultStr
    ELSE JoinTexts((IF resultStr # <<>> THEN resultStr \o <<",", " ">> ELSE resultStr)
                       \o Head(texts),
                   Tail(texts))

SimpleVersesKey_getVerseKeyText(obj) ==
    JoinTexts(<<>>, [i \in 1..Len(obj.verseKeysList) |->
                        SimpleVerseKey_getVerseKeyText(obj.verseKeysList[i])])

ElementText(obj) ==
    IF obj.class = "SimpleVerseKey" THEN SimpleVerseKey_getVerseKeyText(obj)
    ELSE IF obj.class = "SimpleVersesKey" THEN SimpleVersesKey_getVerseKeyText(obj)
    ELSE VerseRangeKey_getVerseKeyText(obj)

FlexibleVersesKey_getVerseKeyText(obj) ==
    JoinTexts(<<>>, [i \in 1..Len(obj.verseKeyObjectList) |->
                        ElementText(obj.verseKeyObjectList[i])])

getVerseKeyText(obj) ==
    IF obj.class = "FlexibleVersesKey" THEN FlexibleVersesKey_getVerseKeyText(obj)
    ELSE ElementText(obj)

\* self.__dict__ == other.__dict__: the same attributes, and each value
\* equal to the other's by ==, which on a list is == of the elements in
\* order and on a key object is the __eq__ of its class
RECURSIVE dict_eq(_, _)
dict_eq(a, b) ==
    /\ DOMAIN a = DOMAIN b
    /\ \A n \in DOMAIN a :
        IF n \in {"rangeStart", "rangeEnd"}
        THEN a[n].class = b[n].class /\ SimpleVerseKey_eq(a[n], b[n])
        ELSE IF n \in {"verseKeysList", "verseKeyObjectList"}
        THEN /\ Len(a[n]) = Len(b[n])
             /\ \A i \in 1..Len(a[n]) :
                    /\ a[n][i].class = b[n][i].class
                    /\ IF a[n][i].class = "SimpleVerseKey"
                       THEN SimpleVerseKey_eq(a[n][i], b[n][i])
                       ELSE dict_eq(a[n][i], b[n][i])
        ELSE a[n] = b[n]

\* __eq__ of SimpleVersesKey, VerseRangeKey and FlexibleVersesKey
SimpleVersesKey_eq(a, b) ==
    IF a.class = "SimpleVersesKey" /\ b.class = "SimpleVersesKey" THEN dict_eq(a, b) ELSE FALSE
VerseRangeKey_eq(a, b) ==
    IF a.class = "VerseRangeKey" /\ b.class = "VerseRangeKey" THEN dict_eq(a, b) ELSE FALSE
FlexibleVersesKey_eq(a, b) ==
    IF a.class = "FlexibleVersesKey" /\ b.class = "FlexibleVersesKey" THEN dict_eq(a, b)
    ELSE FALSE

----------------------------------------------------------------------------
(* The calls explored *)

\* bounds of the exploration
MaxVerseCounter == 21      \* the same-chapter loop is followed while int(V) is below this
MaxChapterCounter == 3     \* the chapter loop is followed while int(C) is at most this
MaxCalls == 2              \* getIncludedVerses() calls made on a constructed object

\* numbers written in the reference strings
WideNumbers == { <<"0">>, <<"1">>, <<"1","9">>, <<"1","0","0">>, <<"1","9","9">>,
                 <<"2","0","0">>, <<"1","2","3","4">>, <<"0","1">> }
SmallNumbers == { <<"1">>, <<"3">>, <<"5">> }
RangeNumbers == { <<"1">>, <<"2">>, <<"5">> }
\* what follows a verse number
WideSuffixes == { <<>>, <<"!","a">>, <<"!","f">>, <<"!","g">>, <<"!">>, <<"b">>,
                  <<"!","a","b">>, <<NL>>, <<"!",NL>>, <<"!","b",NL>>, <<" ">>, <<NL,NL>> }
Suffixes == { <<>>, <<"!","a">>, <<"!","b">> }
Suffixes2 == { <<>>, <<"!","a">> }

CV(c, v, s) == c \o <<":">> \o v \o s

SingleBodies ==
    { CV(c, <<"1">>, s) : c \in WideNumbers, s \in Suffixes2 }
    \cup { CV(<<"1","9">>, v, s) : v \in WideNumbers, s \in Suffixes2 }
    \cup { CV(<<"1","9">>, <<"1","2">>, s) : s \in WideSuffixes }
ListBodies ==
    { CV(<<"1">>, v1, s1) \o <<",">> \o v2 \o s2 :
        v1 \in {<<"1">>, <<"3">>}, v2 \in {<<"2">>, <<"3">>, <<"5">>},
        s1 \in Suffixes2, s2 \in Suffixes2 }
    \cup { CV(c1, v1, s1) \o <<";">> \o CV(c2, <<"1">>, s2) :
        c1 \in {<<"1">>, <<"2">>}, c2 \in {<<"1">>, <<"2">>}, v1 \in {<<"1">>, <<"3">>},
        s1 \in Suffixes2, s2 \in {<<>>} }
    \cup { CV(<<"1">>, <<"1">>, <<>>) \o <<",">> \o v2 \o <<",">> \o v3 \o s3 :
        v2 \in {<<"2">>, <<"3">>}, v3 \in {<<"3">>, <<"4">>, <<"5">>}, s3 \in Suffixes2 }
    \cup { CV(c1, <<"1">>, <<>>) \o <<";">> \o CV(<<"2">>, <<"1">>, <<>>)
                \o <<";">> \o CV(c3, <<"3">>, s3) :
        c1 \in {<<"1">>, <<"2">>}, c3 \in {<<"2">>, <<"3">>}, s3 \in Suffixes2 }
RangeBodies ==
    { CV(<<"1">>, v1, s1) \o <<"-">> \o v2 \o s2 :
        v1 \in RangeNumbers, v2 \in RangeNumbers, s1 \in Suffixes, s2 \in Suffixes }
    \cup { CV(<<"1","9">>, <<"1","2">>, s) \o <<"-">> \o <<"1","9">> \o s : s \in Suffixes2 }
    \cup { CV(<<"1">>, <<"1","9","9">>, s1) \o <<EnDash>> \o CV(<<"2">>, v2, s2) :
        v2 \in {<<"1">>, <<"2">>}, s1 \in Suffixes2, s2 \in {<<>>, <<"!","b">>} }
    \cup { CV(<<"1">>, <<"1","9","9">>, <<>>) \o <<EnDash>> \o CV(<<"3">>, <<"1">>, <<>>) }
    \cup { CV(<<"3">>, v1, s1) \o <<EnDash>> \o CV(c2, <<"1">>, s2) :
        v1 \in {<<"1">>, <<"1","9","9">>}, c2 \in {<<"1">>, <<"3">>},
        s1 \in {<<>>, <<"!","b">>}, s2 \in Suffixes2 }
    \cup WideNumbers
CompoundBodies ==
    { CV(<<"1">>, v1, s1) \o <<"-">> \o v2 \o <<",">> \o v3 \o s3 :
        v1 \in {<<"1">>, <<"3">>}, v2 \in {<<"1">>, <<"3">>}, v3 \in {<<"4">>, <<"5">>},
        s1 \in Suffixes2, s3 \in Suffixes2 }
    \cup { CV(<<"1">>, v1, s1) \o <<",">> \o v2 \o <<"-">> \o v3 \o s3 :
        v1 \in {<<"1">>, <<"2">>}, v2 \in {<<"3">>}, v3 \in SmallNumbers,
        s1 \in Suffixes2, s3 \in Suffixes2 }
    \cup { CV(<<"1">>, v1, <<>>) \o <<",">> \o <<"3">> \o s2 \o <<"-">> \o v3 \o <<",">> \o v4 :
        v1 \in {<<"1">>, <<"2">>}, v3 \in SmallNumbers, v4 \in {<<"6">>, <<"7">>},
        s2 \in Suffixes2 }

Bodies == SingleBodies \cup ListBodies \cup RangeBodies \cup CompoundBodies

\* one body of each grammar, for the book codes outside the registry
ProbeBodies ==
    { CV(<<"1">>, <<"1">>, <<>>), CV(<<"1">>, <<"1">>, <<"!","a">>),
      CV(<<"1">>, <<"1">>, <<>>) \o <<",">> \o <<"3">>,
      CV(<<"1">>, <<"1">>, <<>>) \o <<";">> \o CV(<<"2">>, <<"1">>, <<>>),
      CV(<<"1">>, <<"1">>, <<>>) \o <<",">> \o <<"3">> \o <<",">> \o <<"5">>,
      CV(<<"1">>, <<"1">>, <<>>) \o <<",">> \o <<"2">> \o <<",">> \o <<"5">>,
      CV(<<"1">>, <<"1">>, <<>>) \o <<";">> \o CV(<<"2">>, <<"1">>, <<>>)
          \o <<";">> \o CV(<<"3">>, <<"1">>, <<>>),
      <<"3">>,
      CV(<<"1">>, <<"1">>, <<>>) \o <<"-">> \o <<"3">>,
      CV(<<"1">>, <<"3">>, <<>>) \o <<"-">> \o <<"1">>,
      CV(<<"1","9">>, <<"1","2">>, <<>>) \o <<"-">> \o <<"1","9">>,
      CV(<<"1">>, <<"1","9","9">>, <<>>) \o <<EnDash>> \o CV(<<"2">>, <<"1">>, <<>>),
      CV(<<"1">>, <<"1">>, <<>>) \o <<"-">> \o <<"3">> \o <<",">> \o <<"5">>,
      CV(<<"1">>, <<"1">>, <<>>) \o <<",">> \o <<"3">> \o <<"-">> \o <<"5">>,
      CV(<<"1">>, <<"1">>, <<>>) \o <<",">> \o <<"3">> \o <<"-">> \o <<"5">>
          \o <<",">> \o <<"7">> }

AAA == <<"A","A","A">>     \* matches BBB_RE, not a registered code
BadBooks == { <<"G","n">>, <<"2","K","I">>, <<"G","E","N","E">>, <<"Q","A","A">> }

\* the reference strings given to the constructors
ReferenceStrings ==
    { GEN \o <<"_">> \o body : body \in Bodies }
    \cup { b \o <<"_">> \o body : b \in {AAA, SA2}, body \in ProbeBodies }
    \cup { b \o <<"_">> \o body : b \in BadBooks,
           body \in { CV(<<"1">>, <<"1">>, <<>>), <<"3">>,
                      CV(<<"1">>, <<"1">>, <<>>) \o <<",">> \o <<"3">>,
                      CV(<<"1">>, <<"1">>, <<>>) \o <<"-">> \o <<"3">> } }
    \cup { GEN \o sep \o <<"1">> \o sep2 \o <<"1">> :
           sep \in {<<".">>, <<" ">>}, sep2 \in {<<".">>, <<":">>} }
    \cup { <<>>, GEN, GEN \o <<"_">>, <<NL>> \o GEN \o <<"_">> \o CV(<<"1">>, <<"1">>, <<>>) }

\* the arguments of the four-field form of SimpleVerseKey
FieldArgs == { PyNone, PyInt(12), PyStr(<<"1">>), PyStr(<<"1","9","9">>),
               PyStr(<<"2","0","0">>), PyStr(<<"1","a">>), PyStr(<<"1","a","2">>),
               PyStr(<<"a","1">>), PyStr(<<>>) }
SuffixArgs == { PyNone, PyStr(<<>>), PyStr(<<"a">>), PyStr(<<"f">>), PyStr(<<"g">>) }

Calls ==
    { [cls |-> "SimpleVerseKey", BBB |-> PyStr(s), C |-> PyNone, V |-> PyNone,
       S |-> PyNone, ignoreParseErrors |-> i] :
        s \in ReferenceStrings, i \in BOOLEAN }
    \cup { [cls |-> "SimpleVerseKey", BBB |-> PyStr(b), C |-> c, V |-> v, S |-> s,
            ignoreParseErrors |-> i] :
        b \in {GEN, AAA, GEN \o <<"_">> \o CV(<<"1">>, <<"1">>, <<>>)},
        c \in FieldArgs, v \in FieldArgs, s \in SuffixArgs, i \in BOOLEAN }
    \cup { [cls |-> c, referenceString |-> s, ignoreParseErrors |-> i] :
        c \in {"SimpleVersesKey", "VerseRangeKey"}, s \in ReferenceStrings, i \in BOOLEAN }
    \cup { [cls |-> "FlexibleVersesKey", referenceString |-> s] : s \in ReferenceStrings }

----------------------------------------------------------------------------
(* The state machine *)

Init ==
    /\ strictCheckingFlag \in BOOLEAN
    /\ call \in Calls
    /\ pc = "call"
    /\ raised = ""
    /\ self = NoObject
    /\ rangeKey = NoObject
    /\ locals = NoLocals
    /\ pending = NoPending
    /\ log = <<>>
    /\ included = <<>>
    /\ previous = NoObject

\* SimpleVerseKey( BBB, C, V, S, ignoreParseErrors )
ConstructSimpleVerseKey ==
    /\ pc = "call" /\ call.cls = "SimpleVerseKey"
    /\ LET o == SimpleVerseKey_init(call.BBB, call.C, call.V, call.S,
                                    call.ignoreParseErrors, strictCheckingFlag)
       IN  /\ raised' = o.raised
           /\ pc' = IF o.raised = "" THEN "returned" ELSE "raised"
           /\ self' = IF o.raised = "" THEN o.self ELSE NoObject
           /\ log' = log \o o.log
    /\ UNCHANGED <<strictCheckingFlag, call, rangeKey, locals, pending, included, previous>>

\* SimpleVersesKey( referenceString, ignoreParseErrors )
ConstructSimpleVersesKey ==
    /\ pc = "call" /\ call.cls = "SimpleVersesKey"
    /\ LET o == SimpleVersesKey_init(call.referenceString, call.ignoreParseErrors,
                                     strictCheckingFlag)
       IN  /\ raised' = o.raised
           /\ pc' = IF o.raised = "" THEN "returned" ELSE "raised"
           /\ self' = IF o.raised = "" THEN o.self ELSE NoObject
           /\ log' = log \o o.log
    /\ UNCHANGED <<strictCheckingFlag, call, rangeKey, locals, pending, included, previous>>

\* VerseRangeKey( referenceString, ignoreParseErrors ), up to its while loop
ConstructVerseRangeKey ==
    /\ pc = "call" /\ call.cls = "VerseRangeKey"
    /\ LET o == VerseRangeKey_init(call.referenceString, call.ignoreParseErrors,
                                   strictCheckingFlag)
       IN  /\ raised' = o.raised
           /\ pc' = o.state
           /\ self' = IF o.state = "returned" THEN o.self ELSE NoObject
           /\ rangeKey' = IF o.state \in {"while_VV", "while_CVCV"} THEN o.self ELSE NoObject
           /\ locals' = o.locals
           /\ log' = log \o o.log
    /\ UNCHANGED <<strictCheckingFlag, call, pending, included, previous>>

\* FlexibleVersesKey( referenceString ), up to the while loop of the
\* VerseRangeKey it constructs
ConstructFlexibleVersesKey ==
    /\ pc = "call" /\ call.cls = "FlexibleVersesKey"
    /\ LET o == FlexibleVersesKey_init(call.referenceString, strictCheckingFlag)
       IN  /\ raised' = o.raised
           /\ pc' = o.state
           /\ self' = IF o.state = "raised" THEN NoObject ELSE o.self
           /\ rangeKey' = o.rangeKey
           /\ locals' = o.locals
           /\ pending' = o.pending
           /\ log' = log \o o.log
    /\ UNCHANGED <<strictCheckingFlag, call, included, previous>>

\* the loops are followed while their counters are within the bounds
WithinBounds ==
    IF locals.loop = "V-V" THEN int(locals.V) < MaxVerseCounter
    ELSE int(locals.C) <= MaxChapterCounter

\* one iteration of while True that does not break
WhileBody ==
    /\ pc \in {"while_VV", "while_CVCV"}
    /\ ~AtRangeEnd(locals)
    /\ WithinBounds
    /\ rangeKey' = AppendVerse(rangeKey,
                               SimpleVerseKey(locals.BBB, locals.C, locals.V, <<>>))
    /\ locals' = NextVerse(locals)
    /\ UNCHANGED <<strictCheckingFlag, call, pc, raised, self, pending, log, included,
                   previous>>

\* the iteration that breaks, and the straight-line code up to the return of
\* the constructor that was called
WhileBreak ==
    /\ pc \in {"while_VV", "while_CVCV"}
    /\ AtRangeEnd(locals)
    /\ self' = IF call.cls = "VerseRangeKey" THEN FinishRange(rangeKey, locals)
               ELSE FlexibleVersesKey_resume(self, FinishRange(rangeKey, locals), pending)
    /\ pc' = "returned"
    /\ rangeKey' = NoObject
    /\ locals' = NoLocals
    /\ pending' = NoPending
    /\ UNCHANGED <<strictCheckingFlag, call, raised, log, included, previous>>

\* a caller's list( key.getIncludedVerses() )
CallGetIncludedVerses ==
    /\ pc = "returned"
    /\ Len(included) < MaxCalls
    /\ included' = Append(included, getIncludedVerses(self))
    /\ UNCHANGED <<strictCheckingFlag, call, pc, raised, self, rangeKey, locals, pending,
                   log, previous>>

\* a caller's SimpleVerseKey( key.getVerseKeyText() )
Reparse ==
    /\ pc = "returned"
    /\ call.cls = "SimpleVerseKey"
    /\ previous = NoObject
    /\ included = <<>>
    /\ previous' = self
    /\ call' = [cls |-> "SimpleVerseKey", BBB |-> PyStr(getVerseKeyText(self)),
                C |-> PyNone, V |-> PyNone, S |-> PyNone, ignoreParseErrors |-> FALSE]
    /\ pc' = "call"
    /\ self' = NoObject
    /\ UNCHANGED <<strictCheckingFlag, raised, rangeKey, locals, pending, log, included>>

Next ==
    \/ ConstructSimpleVerseKey
    \/ ConstructSimpleVersesKey
    \/ ConstructVerseRangeKey
    \/ ConstructFlexibleVersesKey
    \/ WhileBody
    \/ WhileBreak
    \/ CallGetIncludedVerses
    \/ Reparse

Spec == Init /\ [][Next]_vars


----------------------------------------------------------------------------
(* Vocabulary of the properties *)

\* the call is SimpleVerseKey( referenceString ): the string mode
StringMode == call.cls = "SimpleVerseKey" /\ IsNone(call.C) /\ IsNone(call.V) /\ IsNone(call.S)

\* a decimal number in 1..199 written without leading zeros
IsNumber1to199(x) ==
    /\ Len(x) \in 1..3
    /\ \A i \in 1..Len(x) : x[i] \in DigitSet
    /\ x[1] # "0"
    /\ int(x) <= 199

SuffixLetters == <<"a","b","c","d","e","f">>
IsSuffix(x) == x = <<>> \/ \E i \in 1..6 : x = <<SuffixLetters[i]>>
\* '' before 'a' before 'b' ...
SuffixRank(x) == IF x = <<>> THEN 0 ELSE CHOOSE i \in 1..6 : x = <<SuffixLetters[i]>>

\* the position of the first character of s that is in chars, or 0
RECURSIVE FindFrom(_, _, _)
FindFrom(s, chars, i) ==
    IF i > Len(s) THEN 0
    ELSE IF s[i] \in chars THEN i
    ELSE FindFrom(s, chars, i + 1)
Find(s, chars) == FindFrom(s, chars, 1)

\* the grammar of the string mode: BBB '_' C ':' V optionally followed by
\* '!' and one letter of a..f, and nothing else
Grammar(s) ==
    LET colon == Find(s, {":"})
        C == SubSeq(s, 5, colon - 1)
        rest == SubSeq(s, colon + 1, Len(s))
        bang == Find(rest, {"!"})
        V == IF bang = 0 THEN rest ELSE SubSeq(rest, 1, bang - 1)
        S == IF bang = 0 THEN <<>> ELSE SubSeq(rest, bang + 1, Len(rest))
    IN  /\ Len(s) >= 7
        /\ BBB_RE(s[1], s[2], s[3])
        /\ s[4] = "_"
        /\ colon > 5
        /\ IsNumber1to199(C)
        /\ IsNumber1to199(V)
        /\ bang # 0 => (S # <<>> /\ IsSuffix(S))

\* the fields of a SingleReference conform to the grammar
Conforming(k) ==
    /\ k.BBB \in BibleBooksCodes
    /\ IsNumber1to199(k.C)
    /\ IsNumber1to199(k.V)
    /\ IsSuffix(k.S)

\* a <= b in (chapter, verse, suffix) order
KeyLE(a, b) ==
    \/ int(a.C) < int(b.C)
    \/ /\ int(a.C) = int(b.C)
       /\ \/ int(a.V) < int(b.V)
          \/ int(a.V) = int(b.V) /\ SuffixRank(a.S) <= SuffixRank(b.S)

\* the pieces of s between the separators
RECURSIVE SplitOn(_, _)
SplitOn(s, seps) ==
    IF Find(s, seps) = 0 THEN <<s>>
    ELSE <<SubSeq(s, 1, Find(s, seps) - 1)>>
         \o SplitOn(SubSeq(s, Find(s, seps) + 1, Len(s)), seps)

\* the canonical texts of the SingleReferences a list string names, in
\* input order: a piece without ':' shares the book and chapter of the first
NamedTexts(s) ==
    LET pieces == SplitOn(s, {",", ";"})
        first == pieces[1]
        upToColon == SubSeq(first, 1, Find(first, {":"}))
        book == SubSeq(first, 1, 4)
    IN  [i \in 1..Len(pieces) |->
            IF i = 1 THEN first
            ELSE IF Find(pieces[i], {":"}) = 0 THEN upToColon \o pieces[i]
            ELSE book \o pieces[i]]

\* the loop counter has not passed the verse at which the loop exits.  The
\* counter only grows and the exit test is an equality, so the loop
\* reaches its exit exactly from the states where this holds.
NotPastEnd(loc) ==
    IF loc.loop = "V-V" THEN int(loc.V) <= int(loc.V2)
    ELSE \/ int(loc.C) < int(loc.C2)
         \/ int(loc.C) = int(loc.C2) /\ int(loc.V) <= int(loc.V2)

\* the returned object is a same-chapter range 'BBB_C:V1-V2' with V1 <= V2
SameChapterRange ==
    /\ pc = "returned"
    /\ call.cls = "VerseRangeKey"
    /\ self.keyType = "V-V"
    /\ int(self.rangeStart.V) <= int(self.rangeEnd.V)

----------------------------------------------------------------------------
(* The properties *)

\* C1: constructing a reference terminates; in particular the expansion
\* loops of a range always reach rangeEnd and stop, also when the end
\* written in the string is smaller than the start.  Stated on the loop:
\* whenever the constructor is inside a loop, the counter has not passed
\* the exit verse.
C1_LoopsReachRangeEnd ==
    pc \in {"while_VV", "while_CVCV"} => NotPastEnd(locals)

\* C2: under strict policy a range whose end precedes its start in
\* (chapter, verse, suffix) order is refused: it neither passes the
\* constructor's checks into the expansion loop nor is returned, so every
\* range constructed under strict policy has rangeStart <= rangeEnd.
C2_StrictRangeIsOrdered ==
    strictCheckingFlag /\ call.cls = "VerseRangeKey" =>
        /\ pc \in {"while_VV", "while_CVCV"} => KeyLE(rangeKey.rangeStart, rangeKey.rangeEnd)
        /\ pc = "returned" => KeyLE(self.rangeStart, self.rangeEnd)

\* C3: a constructed ReferenceList, of any of the four grammar families,
\* stores exactly the 2 or 3 SingleReferences its string names, in input
\* order, and getIncludedVerses() returns them.
C3_ListHoldsItsConstituents ==
    pc = "returned" /\ call.cls = "SimpleVersesKey" =>
        /\ [i \in 1..Len(self.verseKeysList) |->
               SimpleVerseKey_getVerseKeyText(self.verseKeysList[i])]
           = NamedTexts(call.referenceString)
        /\ \A i \in 1..Len(included) :
               included[i] = [raised |-> "", value |-> self.verseKeysList]

\* C4: on every constructed VerseRangeKey (same-chapter, cross-chapter or
\* chapter shorthand) getIncludedVerses() does not fail, returns a
\* non-empty expansion, and returns the same sequence on every call.
C4_RangeExpansionIsAvailable ==
    pc = "returned" /\ call.cls = "VerseRangeKey" =>
        \A i \in 1..Len(included) :
            /\ included[i].raised = ""
            /\ included[i].value # <<>>
            /\ included[i].value = included[1].value

\* C5: the expansion of a same-chapter range with V1 <= V2 starts with
\* rangeStart (book, chapter, V1, S1) and ends with rangeEnd (book,
\* chapter, V2, S2).
C5_ExpansionEndsAreTheRangeEnds ==
    SameChapterRange =>
        \A i \in 1..Len(included) :
            /\ included[i].value # <<>>
            /\ SimpleVerseKey_eq(Head(included[i].value), self.rangeStart)
            /\ SimpleVerseKey_eq(included[i].value[Len(included[i].value)], self.rangeEnd)

\* C6: the expansion of a same-chapter range with V1 <= V2 has exactly
\* V2 - V1 + 1 elements.
C6_ExpansionLength ==
    SameChapterRange =>
        /\ Len(self.verseKeysList) = int(self.rangeEnd.V) - int(self.rangeStart.V) + 1
        /\ \A i \in 1..Len(included) :
               /\ included[i].raised = ""
               /\ Len(included[i].value)
                      = int(self.rangeEnd.V) - int(self.rangeStart.V) + 1

\* SA2_19:12-19 has been expanded to its 8 verses
C6_Witness ==
    /\ SameChapterRange
    /\ self.rangeStart.BBB = SA2
    /\ self.rangeStart.V = <<"1","2">> /\ self.rangeEnd.V = <<"1","9">>
    /\ included # <<>>
    /\ Len(included[1].value) = 8

\* C7: for a SingleReference r with conforming fields, built from four
\* fields or parsed from a string, SimpleVerseKey( r.getVerseKeyText() )
\* succeeds and equals r.
C7_RoundTrip ==
    previous.class = "SimpleVerseKey" /\ Conforming(previous) /\ pc # "call" =>
        pc = "returned" /\ SimpleVerseKey_eq(self, previous)

\* a key built from four fields, with a suffix, has been re-parsed from its text
C7_Witness ==
    /\ previous.class = "SimpleVerseKey"
    /\ Conforming(previous)
    /\ previous.keyType = "AssignedBVCS"
    /\ previous.S = <<"a">>
    /\ pc = "returned"
    /\ self.keyType = "ParsedBVCS"

\* C8: the getVerseKeyText() of a key constructed from a string s is s.
C8_TextIsTheInput ==
    pc = "returned" /\ StringMode => getVerseKeyText(self) = call.BBB.str

\* C9: the string mode accepts a string iff it conforms to the grammar;
\* every other string makes the constructor fail.  (A conforming string
\* with an unregistered book code fails under strict policy only.)
C9_AcceptsExactlyTheGrammar ==
    StringMode /\ pc \in {"returned", "raised"} =>
        /\ pc = "returned" => Grammar(call.BBB.str)
        /\ Grammar(call.BBB.str)
               /\ (~strictCheckingFlag \/ SubSeq(call.BBB.str, 1, 3) \in BibleBooksCodes)
             => pc = "returned"

\* C10: makeHash() is an unambiguous key over the four fields: among the
\* keys a constructed reference holds, two have the same hash iff they
\* agree on BBB, C, V and S.
C10_HashIsUnambiguous ==
    pc = "returned" /\ getIncludedVerses(self).raised = "" =>
        \A i, j \in 1..Len(getIncludedVerses(self).value) :
            SimpleVerseKey_makeHash(getIncludedVerses(self).value[i])
                = SimpleVerseKey_makeHash(getIncludedVerses(self).value[j])
            <=> SimpleVerseKey_eq(getIncludedVerses(self).value[i],
                                  getIncludedVerses(self).value[j])

\* the objects a state holds: the constructed object, the object being
\* re-parsed, and the keys and ranges inside them
ObjectsInState ==
    {self, previous}
    \cup (IF HasAttr(self, "verseKeyObjectList")
          THEN { self.verseKeyObjectList[i] : i \in 1..Len(self.verseKeyObjectList) }
          ELSE {})
    \cup (IF HasAttr(self, "verseKeysList")
          THEN { self.verseKeysList[i] : i \in 1..Len(self.verseKeysList) }
          ELSE {})

\* C11: two SimpleVerseKeys are equal iff their BBB, C, V and S are equal,
\* whatever their keyType and ignoreParseErrors; __ne__ is the negation of
\* __eq__; a SimpleVerseKey never equals a value of another type.
C11_EqualityIsOverTheFourFields ==
    \A a \in ObjectsInState : \A b \in ObjectsInState :
        a.class = "SimpleVerseKey" =>
            /\ SimpleVerseKey_eq(a, b) <=>
                   (b.class = "SimpleVerseKey"
                       /\ <<a.BBB, a.C, a.V, a.S>> = <<b.BBB, b.C, b.V, b.S>>)
            /\ SimpleVerseKey_ne(a, b) <=> ~SimpleVerseKey_eq(a, b)
            /\ SimpleVerseKey_eq(b, a) <=> SimpleVerseKey_eq(a, b)

\* a key built from four fields equals the key parsed from its text, though
\* their keyType and ignoreParseErrors differ
C11_Witness ==
    /\ previous.class = "SimpleVerseKey" /\ self.class = "SimpleVerseKey"
    /\ pc = "returned"
    /\ previous.keyType # self.keyType
    /\ previous.ignoreParseErrors # self.ignoreParseErrors
    /\ SimpleVerseKey_eq(previous, self)

\* which grammars a string matches
MatchesSingle(s) == Search(VERSE_RE, s).matched
MatchesList(s) ==
    \/ Search(VERSES2_RE, s).matched \/ Search(VERSES2C_RE, s).matched
    \/ Search(VERSES3_RE, s).matched \/ Search(VERSES3C_RE, s).matched
MatchesRange(s) ==
    \/ Search(VERSE_RANGE_RE, s).matched \/ Search(CHAPTER_RANGE_RE, s).matched
    \/ Search(CHAPTER_RE, s).matched
\* the first grammar, in the dispatcher's order, that a string matches
Winner(s) ==
    IF MatchesSingle(s) THEN "single"
    ELSE IF MatchesList(s) THEN "list"
    ELSE IF MatchesRange(s) THEN "range"
    ELSE IF Search(VERSE_RANGE_PLUS_RE, s).matched THEN "V-V,V"
    ELSE IF Search(VERSE_PLUS_RANGE_RE, s).matched THEN "V,V-V"
    ELSE IF Search(VERSE_PLUS_RANGE_PLUS_RE, s).matched THEN "V,V-V,V"
    ELSE "none"

\* the classes of the elements of a dispatcher's result
ElementClasses(obj) ==
    [i \in 1..Len(obj.verseKeyObjectList) |-> obj.verseKeyObjectList[i].class]

\* C12: the dispatcher returns the value produced by the first grammar, in
\* the order single, list, range, V-V,V, V,V-V, V,V-V,V, that the string
\* matches: its result holds what that grammar's constructor yields and
\* nothing from a later grammar, and it fails as that constructor fails.
C12_FirstMatchingGrammarWins ==
    call.cls = "FlexibleVersesKey" /\ pc \in {"returned", "raised"} =>
        LET s == call.referenceString
            w == Winner(s)
            k1 == SimpleVerseKey_fromString(s, TRUE, strictCheckingFlag)
            k2 == SimpleVersesKey_init(s, TRUE, strictCheckingFlag)
            k3 == VerseRangeKey_init(s, TRUE, strictCheckingFlag)
        IN  CASE w = "single" ->
                   IF k1.raised = ""
                   THEN pc = "returned" /\ self.verseKeyObjectList = <<k1.self>>
                   ELSE pc = "raised" /\ raised = k1.raised
              [] w = "list" ->
                   IF k2.raised = ""
                   THEN pc = "returned" /\ self.verseKeyObjectList = <<k2.self>>
                   ELSE pc = "raised" /\ raised = k2.raised
              [] w = "range" ->
                   IF k3.state = "raised" THEN pc = "raised" /\ raised = k3.raised
                   ELSE /\ pc = "returned"
                        /\ ElementClasses(self) = <<"VerseRangeKey">>
                        /\ self.verseKeyObjectList[1].rangeStart = k3.self.rangeStart
                        /\ self.verseKeyObjectList[1].rangeEnd = k3.self.rangeEnd
              [] w = "V-V,V" ->
                   pc = "returned" =>
                       /\ ElementClasses(self) = <<"VerseRangeKey", "SimpleVerseKey">>
                       /\ self.keyType = w
              [] w = "V,V-V" ->
                   pc = "returned" =>
                       /\ ElementClasses(self) = <<"SimpleVerseKey", "VerseRangeKey">>
                       /\ self.keyType = w
              [] w = "V,V-V,V" ->
                   pc = "returned" =>
                       /\ ElementClasses(self)
                              = <<"SimpleVerseKey", "VerseRangeKey", "SimpleVerseKey">>
                       /\ self.keyType = w
              [] OTHER -> pc = "raised" /\ raised = "TypeError"

\* the dispatcher has returned the three elements of a V,V-V,V string
C12_Witness ==
    /\ call.cls = "FlexibleVersesKey" /\ pc = "returned"
    /\ Winner(call.referenceString) = "V,V-V,V"
    /\ Len(self.verseKeyObjectList) = 3

\* the string given to the constructor that was called
ReferenceStringOfCall ==
    IF call.cls = "SimpleVerseKey" THEN call.BBB.str ELSE call.referenceString

\* the call gives one reference string to one of the four constructors
StringCall == call.cls = "SimpleVerseKey" => StringMode

\* the string matches one of the grammars of the class
MatchesClass(cls, s) ==
    CASE cls = "SimpleVerseKey" -> MatchesSingle(s)
      [] cls = "SimpleVersesKey" -> MatchesList(s)
      [] cls = "VerseRangeKey" -> MatchesRange(s)
      [] OTHER -> Winner(s) # "none"

\* the book code of a string that matches a grammar: its first three characters
BookOf(s) == SubSeq(s, 1, 3)

\* C13: under the lenient policy the dispatcher fails to construct a value
\* exactly when the string matches none of the grammars; a string that
\* matches a grammar yields a value whatever its book code and verse order.
C13_LenientDispatcherFailsOnlyOnNoMatch ==
    ~strictCheckingFlag /\ call.cls = "FlexibleVersesKey" /\ pc \in {"returned", "raised"} =>
        (pc = "raised" <=> Winner(call.referenceString) = "none")

\* C14: a string that matches a grammar of the class and names a book code
\* outside the registry constructs a value under the lenient policy, with
\* the code logged, and fails to construct under the strict policy.
C14_UnregisteredBookIsLoggedOrFatal ==
    LET s == ReferenceStringOfCall
    IN  /\ StringCall
        /\ pc \in {"returned", "raised"}
        /\ MatchesClass(call.cls, s)
        /\ BookOf(s) \notin BibleBooksCodes
        => IF strictCheckingFlag THEN pc = "raised"
           ELSE /\ pc = "returned"
                /\ \E i \in 1..Len(log) : log[i].arg = BookOf(s)

\* the records of the log that report the string s as unparsable
UnableToParse(s) ==
    { i \in 1..Len(log) :
        /\ log[i].arg = s
        /\ log[i].fmt \in { "SimpleVerseKey was unable to parse {!r}",
                            "VerseRangeKey was unable to parse {!r}",
                            "FlexibleVersesKey was unable to parse {!r}" } }

\* C15: a string that matches none of the grammars of the class makes each
\* of the four constructors raise TypeError and leave no object, whatever
\* ignoreParseErrors and the strict flag are; ignoreParseErrors decides only
\* whether the failure is logged (the dispatcher, which has no such
\* argument, always logs it).
C15_NoMatchAlwaysFails ==
    LET s == ReferenceStringOfCall
    IN  StringCall /\ pc # "call" /\ ~MatchesClass(call.cls, s) =>
            /\ pc = "raised"
            /\ raised = "TypeError"
            /\ self = NoObject
            /\ included = <<>>
            /\ Cardinality(UnableToParse(s)) =
                   IF call.cls = "FlexibleVersesKey" THEN 1
                   ELSE IF call.ignoreParseErrors THEN 0 ELSE 1

\* an unparsable string given with ignoreParseErrors=True: the constructor
\* has raised and nothing was logged
C15_Witness ==
    /\ call.cls \in {"SimpleVerseKey", "SimpleVersesKey", "VerseRangeKey"}
    /\ StringCall
    /\ call.ignoreParseErrors
    /\ ~MatchesClass(call.cls, ReferenceStringOfCall)
    /\ pc = "raised"
    /\ raised = "TypeError"
    /\ log = <<>>

\* the object parseReferenceString is called on by SimpleVerseKey.__init__
FreshSimpleVerseKey ==
    [class |-> "SimpleVerseKey", ignoreParseErrors |-> call.ignoreParseErrors]

\* C16 as stated: when the strict flag is off, constructing a SimpleVerseKey
\* from a string outside the grammar does not raise.
C16_NonStrictDoesNotRaise ==
    StringMode /\ ~strictCheckingFlag /\ pc # "call"
        /\ ~MatchesSingle(call.BBB.str) => pc # "raised"

\* C16: constructing a SimpleVerseKey from a string outside the grammar
\* raises TypeError with the strict flag off as with it on; the signal that
\* can be tested without an exception is the False that parseReferenceString
\* returns, which __init__ turns into the TypeError.
C16_NoMatchRaisesUnderBothPolicies ==
    StringMode /\ pc # "call" /\ ~MatchesSingle(call.BBB.str) =>
        /\ pc = "raised" /\ raised = "TypeError"
        /\ \A strict \in BOOLEAN :
            LET p == SimpleVerseKey_parseReferenceString(FreshSimpleVerseKey,
                                                         call.BBB.str, strict)
            IN  /\ ~p.result /\ p.raised = ""
                /\ SimpleVerseKey_fromString(call.BBB.str, call.ignoreParseErrors,
                                             strict).raised = "TypeError"

\* a string outside the grammar given with the strict flag off: the
\* constructor has raised TypeError
C16_Witness ==
    /\ StringMode
    /\ ~strictCheckingFlag
    /\ ~MatchesSingle(call.BBB.str)
    /\ pc = "raised"
    /\ raised = "TypeError"
    /\ ~SimpleVerseKey_parseReferenceString(FreshSimpleVerseKey, call.BBB.str, FALSE).result

\* repr( s ) for the characters of the reference strings: the string in
\* single quotes, a newline written as backslash n, a backslash doubled
RECURSIVE Escape(_)
Escape(s) ==
    IF s = <<>> THEN <<>>
    ELSE (IF Head(s) = NL THEN <<"\\", "n">>
          ELSE IF Head(s) = "\\" THEN <<"\\", "\\">>
          ELSE <<Head(s)>>) \o Escape(Tail(s))
repr(s) == <<"'">> \o Escape(s) \o <<"'">>

\* the text before {!r} in the format string of the dispatcher's report
UnableToParseText ==
    <<"F", "l", "e", "x", "i", "b", "l", "e", "V", "e", "r", "s", "e", "s", "K", "e",
      "y", " ", "w", "a", "s", " ", "u", "n", "a", "b", "l", "e", " ", "t", "o", " ",
      "p", "a", "r", "s", "e", " ">>

\* "FlexibleVersesKey was unable to parse {!r}".format( referenceString )
format(rec) == UnableToParseText \o repr(rec.arg)

\* s occurs in m, character for character
Contains(m, s) ==
    \E i \in 0..(Len(m) - Len(s)) : SubSeq(m, i + 1, i + Len(s)) = s

\* s has a character that repr does not leave as it is
HasEscapedCharacter(s) == \E i \in 1..Len(s) : s[i] \in {NL, "\\"}

\* the dispatcher was given a string that matches none of the grammars
DispatcherNoMatch ==
    /\ call.cls = "FlexibleVersesKey"
    /\ pc # "call"
    /\ Winner(call.referenceString) = "none"

\* C17 as stated: the dispatcher's failure is reported once, by the
\* dispatcher and by no sub-grammar, and the report contains the string
\* verbatim.
C17_OneVerbatimReport ==
    DispatcherNoMatch =>
        /\ Len(log) = 1
        /\ log[1].fmt = "FlexibleVersesKey was unable to parse {!r}"
        /\ Contains(format(log[1]), call.referenceString)

\* C17: the dispatcher's failure is reported once, by the dispatcher and by
\* no sub-grammar, and the report cites the repr of the string: the string
\* in quotes with its newlines written as escape sequences, so that the
\* string is in the report verbatim exactly when it has no such character.
C17_OneReportOfTheRepr ==
    DispatcherNoMatch =>
        /\ log = <<LogError("FlexibleVersesKey was unable to parse {!r}",
                            call.referenceString)>>
        /\ format(log[1]) = UnableToParseText \o repr(call.referenceString)
        /\ Contains(format(log[1]), repr(call.referenceString))
        /\ Contains(format(log[1]), call.referenceString)
               <=> ~HasEscapedCharacter(call.referenceString)

\* the dispatcher has reported a string that has a newline
C17_Witness ==
    /\ DispatcherNoMatch
    /\ pc = "raised"
    /\ Len(log) = 1
    /\ HasEscapedCharacter(call.referenceString)
    /\ ~Contains(format(log[1]), call.referenceString)

\* a before b, and not the same place, in (chapter, verse, suffix) order
KeyLT(a, b) == KeyLE(a, b) /\ ~KeyLE(b, a)

\* C18: under the strict policy every SimpleVersesKey that was constructed,
\* of the same-chapter and of the cross-chapter forms alike, holds entries
\* that strictly increase in (chapter, verse, suffix) order.
C18_StrictListIsIncreasing ==
    strictCheckingFlag /\ call.cls = "SimpleVersesKey" /\ pc = "returned" =>
        \A i \in 1..(Len(self.verseKeysList) - 1) :
            KeyLT(self.verseKeysList[i], self.verseKeysList[i + 1])

\* the verses of the elements, one element after the other
RECURSIVE Concatenation(_)
Concatenation(elements) ==
    IF elements = <<>> THEN <<>>
    ELSE (IF Head(elements).class = "SimpleVerseKey" THEN <<Head(elements)>>
          ELSE Head(elements).verseKeysList) \o Concatenation(Tail(elements))

\* C19: for every value the dispatcher constructs, getIncludedVerses() does
\* not fail and returns the concatenation, in order, of the included verses
\* of its elements.
C19_DispatcherExpansionIsTheConcatenation ==
    call.cls = "FlexibleVersesKey" /\ pc = "returned" =>
        \A i \in 1..Len(included) :
            /\ included[i].raised = ""
            /\ included[i].value = Concatenation(self.verseKeyObjectList)

\* the texts with sep, and nothing else, between them
RECURSIVE JoinedBy(_, _)
JoinedBy(sep, texts) ==
    IF texts = <<>> THEN <<>>
    ELSE IF Len(texts) = 1 THEN Head(texts)
    ELSE Head(texts) \o sep \o JoinedBy(sep, Tail(texts))

\* C20: getVerseKeyText() uses the separators of the grammar: the elements
\* of a list are joined by ',' and nothing else, the ends of a range within
\* one chapter by '-', and the ends of a range across chapters by the en-dash.
C20_TextUsesTheGrammarSeparators ==
    pc = "returned" =>
        /\ call.cls = "SimpleVersesKey" =>
               getVerseKeyText(self) =
                   JoinedBy(<<",">>, [i \in 1..Len(self.verseKeysList) |->
                                SimpleVerseKey_getVerseKeyText(self.verseKeysList[i])])
        /\ call.cls = "VerseRangeKey" /\ HasAttr(self, "rangeStart") =>
               getVerseKeyText(self) =
                   SimpleVerseKey_getVerseKeyText(self.rangeStart)
                       \o (IF self.rangeStart.C = self.rangeEnd.C THEN <<"-">>
                           ELSE <<EnDash>>)
                       \o SimpleVerseKey_getVerseKeyText(self.rangeEnd)

\* C21: for every string the dispatcher accepts, the getVerseKeyText() of
\* the value is accepted by the dispatcher in its turn and parses to a value
\* equal to the first.
C21_DispatcherRoundTrip ==
    call.cls = "FlexibleVersesKey" /\ pc = "returned" =>
        LET again == FlexibleVersesKey_init(getVerseKeyText(self), strictCheckingFlag)
        IN  /\ again.state = "returned"
            /\ FlexibleVersesKey_eq(again.self, self)

\* C29: equality of list and range values depends on the parsed content
\* only: the value parsed from a string equals the value parsed from the
\* same string with the other ignoreParseErrors, and the list held by a
\* dispatcher equals the list constructed directly from the string.
C29_EqualityIsOfTheParsedContent ==
    pc = "returned" =>
        /\ call.cls = "SimpleVersesKey" =>
               SimpleVersesKey_eq(self,
                   SimpleVersesKey_init(call.referenceString, ~call.ignoreParseErrors,
                                        strictCheckingFlag).self)
        /\ call.cls = "VerseRangeKey" =>
               LET other == VerseRangeKey_init(call.referenceString,
                                               ~call.ignoreParseErrors, strictCheckingFlag)
               IN  other.state = "returned" => VerseRangeKey_eq(self, other.self)
        /\ call.cls = "FlexibleVersesKey" /\ Winner(call.referenceString) = "list" =>
               SimpleVersesKey_eq(self.verseKeyObjectList[1],
                   SimpleVersesKey_init(call.referenceString, FALSE,
                                        strictCheckingFlag).self)

\* C22: the two modes of SimpleVerseKey exclude each other: a call whose
\* first argument is a whole reference string and which also gives a
\* chapter or a verse fails and constructs no value.
C22_ConstructorModesAreExclusive ==
    /\ call.cls = "SimpleVerseKey"
    /\ pc # "call"
    /\ MatchesSingle(call.BBB.str)
    /\ (~IsNone(call.C) \/ ~IsNone(call.V))
    => pc = "raised" /\ self = NoObject

\* a VerseRangeKey of the C:V–C:V form, its loop finished, whose end
\* chapter is after its start chapter
ForwardChapterRange ==
    /\ call.cls = "VerseRangeKey"
    /\ pc = "returned"
    /\ HasAttr(self, "keyType")
    /\ self.keyType = "CV-CV"
    /\ int(self.rangeStart.C) < int(self.rangeEnd.C)

\* C23: the expansion of a range from C1:V1 to C2:V2 with C1 < C2 starts at
\* C1:V1 and stops at C2:V2; from one element to the next the verse number
\* goes up by 1 within the chapter, except after verse 222, which is
\* followed by verse 1 of the next chapter; no element has a verse number
\* above 222; so it counts C1:V1..222, 222 verses for each chapter between,
\* and C2:1..V2.
C23_ChapterRangeRollsOverAfter222 ==
    ForwardChapterRange =>
        LET l == self.verseKeysList
            C1 == int(self.rangeStart.C)  V1 == int(self.rangeStart.V)
            C2 == int(self.rangeEnd.C)    V2 == int(self.rangeEnd.V)
        IN  /\ Len(l) = (RolloverVerse - V1 + 1) + RolloverVerse * (C2 - C1 - 1) + V2
            /\ int(l[1].C) = C1 /\ int(l[1].V) = V1
            /\ int(l[Len(l)].C) = C2 /\ int(l[Len(l)].V) = V2
            /\ \A i \in 1..Len(l) : int(l[i].V) \in 1..RolloverVerse
            /\ \A i \in 1..(Len(l) - 1) :
                   IF int(l[i].V) = RolloverVerse
                   THEN int(l[i + 1].C) = int(l[i].C) + 1 /\ int(l[i + 1].V) = 1
                   ELSE int(l[i + 1].C) = int(l[i].C) /\ int(l[i + 1].V) = int(l[i].V) + 1

\* a range over a whole chapter in between: 1:199 to 3:1 has 24, 222 and 1 verses
C23_Witness ==
    /\ ForwardChapterRange
    /\ int(self.rangeEnd.C) = int(self.rangeStart.C) + 2
    /\ Len(self.verseKeysList) = 247
    /\ \E i \in 1..Len(self.verseKeysList) :
           self.verseKeysList[i].C = <<"2">> /\ self.verseKeysList[i].V = <<"2","2","2">>

\* entry 2 of a pair has the suffix of entry 1 and a verse number smaller
\* than that of entry 1 plus 2
TooClose(V1, S1, V2, S2) == S2 = S1 /\ int(V2) < int(V1) + 2

\* the string is a V,V or V,V,V list with such a pair of successive entries
HasTooClosePair(s) ==
    LET m2 == Search(VERSES2_RE, s)
        m3 == Search(VERSES3_RE, s)
    IN  \/ /\ m2.matched
           /\ TooClose(m2.group[3], GroupOrEmpty(m2, 4), m2.group[5], GroupOrEmpty(m2, 6))
        \/ /\ m3.matched
           /\ \/ TooClose(m3.group[3], GroupOrEmpty(m3, 4), m3.group[5], GroupOrEmpty(m3, 6))
              \/ TooClose(m3.group[5], GroupOrEmpty(m3, 6), m3.group[7], GroupOrEmpty(m3, 8))

\* C24: a same-chapter list in which an entry has the suffix of its
\* predecessor and a verse number smaller than the predecessor's plus 2
\* fails to construct under the strict policy and constructs a value under
\* the lenient policy.
C24_CloseVersesFailUnderStrictOnly ==
    /\ call.cls = "SimpleVersesKey"
    /\ pc # "call"
    /\ HasTooClosePair(call.referenceString)
    => IF strictCheckingFlag THEN pc = "raised"
       ELSE pc = "returned" /\ self.class = "SimpleVersesKey"

\* the digits a string begins with
RECURSIVE LeadingDigits(_)
LeadingDigits(x) ==
    IF x = <<>> \/ ~IsDigit(Head(x)) THEN <<>>
    ELSE <<Head(x)>> \o LeadingDigits(Tail(x))

\* what the claim has an integer accessor return for the string x
LenientInt(x) == IF LeadingDigits(x) = <<>> THEN PyNone ELSE PyInt(int(LeadingDigits(x)))

\* C25: getChapterNumberInt and getVerseNumberInt never raise; for a string
\* that begins with a digit they return the value of its leading digits,
\* whatever follows, and for any other string None.
C25_IntegerAccessorsTakeTheLeadingDigits ==
    \A k \in ObjectsInState :
        k.class = "SimpleVerseKey" =>
            /\ k.C # None =>
                   /\ SimpleVerseKey_getChapterNumberInt(k).raised = ""
                   /\ SimpleVerseKey_getChapterNumberInt(k).value = LenientInt(k.C)
            /\ k.V # None =>
                   /\ SimpleVerseKey_getVerseNumberInt(k).raised = ""
                   /\ SimpleVerseKey_getVerseNumberInt(k).value = LenientInt(k.V)

\* C26: whatever failure a constructor given a string raises is a TypeError,
\* under either policy, whether the book code is registered or not and
\* whether an order check fails or not.
C26_EveryFailureIsTypeError ==
    StringCall /\ pc = "raised" => raised = "TypeError"

\* the eleven anchored grammars
Grammars ==
    { VERSE_RE, VERSES2_RE, VERSES2C_RE, VERSES3_RE, VERSES3C_RE, CHAPTER_RE,
      VERSE_RANGE_RE, CHAPTER_RANGE_RE, VERSE_RANGE_PLUS_RE, VERSE_PLUS_RANGE_RE,
      VERSE_PLUS_RANGE_PLUS_RE }

\* the grammars a string matches
MatchedGrammars(s) == { g \in Grammars : Search(g, s).matched }

\* C27: the eleven grammars are pairwise disjoint: no string matches more
\* than one of them, so that the grammar the dispatcher stops at is the
\* only one the string matches.
C27_GrammarsAreDisjoint ==
    StringCall =>
        /\ Cardinality(Grammars) = 11
        /\ Cardinality(MatchedGrammars(ReferenceStringOfCall)) <= 1
        /\ Winner(ReferenceStringOfCall) # "none"
               <=> Cardinality(MatchedGrammars(ReferenceStringOfCall)) = 1

\* the dispatcher has returned for a string of the last grammar it tries,
\* which matches that grammar alone
C27_Witness ==
    /\ call.cls = "FlexibleVersesKey"
    /\ pc = "returned"
    /\ MatchedGrammars(call.referenceString) = {VERSE_PLUS_RANGE_PLUS_RE}
    /\ self.keyType = "V,V-V,V"

\* the ranges a state holds whose expansion loop has finished
ExpandedRanges ==
    IF pc # "returned" THEN {}
    ELSE { r \in ObjectsInState : r.class = "VerseRangeKey" /\ HasAttr(r, "verseKeysList") }

\* C28: in the expansion of a range every element but the last has an empty
\* suffix and the last is the range's end, suffix included; when the start
\* has a suffix, the start is an element of the expansion only if the
\* expansion has one element and the two suffixes are the same.
C28_OnlyTheEndSuffixIsCarried ==
    \A r \in ExpandedRanges :
        LET l == r.verseKeysList
        IN  /\ Len(l) >= 1
            /\ \A i \in 1..(Len(l) - 1) : l[i].S = <<>>
            /\ <<l[Len(l)].BBB, l[Len(l)].C, l[Len(l)].V, l[Len(l)].S>>
                   = <<r.rangeEnd.BBB, r.rangeEnd.C, r.rangeEnd.V, r.rangeEnd.S>>
            /\ r.rangeStart.S # <<>> =>
                   ((\E i \in 1..Len(l) : SimpleVerseKey_eq(l[i], r.rangeStart))
                        <=> (Len(l) = 1 /\ r.rangeStart.S = r.rangeEnd.S))

\* a finished range of several verses whose ends have different suffixes
C28_Witness ==
    \E r \in ExpandedRanges :
        /\ Len(r.verseKeysList) > 1
        /\ r.rangeStart.S = <<"a">>
        /\ r.rangeEnd.S = <<"b">>
        /\ r.verseKeysList[Len(r.verseKeysList)].S = <<"b">>
        /\ r.verseKeysList[1].S = <<>>

\* the finished ranges of the V-V form whose start verse is not after the end
ForwardVerseRanges ==
    { r \in ExpandedRanges :
        r.keyType = "V-V" /\ int(r.rangeStart.V) <= int(r.rangeEnd.V) }

\* C30: the expansion of a same-chapter range from V1 to V2, V1 <= V2, has
\* the book and the chapter of the range in every element and the verse
\* numbers V1, V1+1, ..., V2 in that order, once each; this holds of the
\* range inside a compound too, whose single verses have the book and the
\* chapter of its range.
C30_VerseRangeIsTheRunOfVerses ==
    /\ \A r \in ForwardVerseRanges :
        LET l == r.verseKeysList
            V1 == int(r.rangeStart.V)
            V2 == int(r.rangeEnd.V)
        IN  /\ Len(l) = V2 - V1 + 1
            /\ r.rangeStart.BBB = BookOf(ReferenceStringOfCall)
            /\ r.rangeStart.C = r.rangeEnd.C
            /\ \A i \in 1..Len(l) :
                   /\ l[i].BBB = r.rangeStart.BBB
                   /\ l[i].C = r.rangeStart.C
                   /\ l[i].V = str(V1 + i - 1)
    /\ call.cls = "FlexibleVersesKey" /\ pc = "returned" /\ HasAttr(self, "keyType") =>
        \A r \in ExpandedRanges : \A k \in ObjectsInState :
            k.class = "SimpleVerseKey" =>
                k.BBB = r.rangeStart.BBB /\ k.C = r.rangeStart.C

\* a compound whose range, 3 to 5, lies between two single verses
C30_Witness ==
    /\ call.cls = "FlexibleVersesKey"
    /\ pc = "returned"
    /\ HasAttr(self, "keyType")
    /\ self.keyType = "V,V-V,V"
    /\ \E r \in ForwardVerseRanges :
           /\ Len(r.verseKeysList) = 3
           /\ r.verseKeysList[2].V = <<"4">>

============================================================================
